---- MODULE Spec2Model ----
(***************************************************************************)
(* Video Dub Hub backend (server.js): the in-memory catalog `videos`, the  *)
(* upload filter, the dubbing simulation driven by setInterval, and the    *)
(* asynchronous delete handler.                                            *)
(*                                                                         *)
(* Node runs each handler and each timer callback to its next `await`      *)
(* without interruption, so one action is one such run.  The only handler  *)
(* with awaits is DELETE /api/video/:id (pathExists, remove).              *)
(*                                                                         *)
(* A record is a JavaScript object.  The array `videos` holds references,  *)
(* and so does the closure of every interval callback: `heap` maps the id  *)
(* of every record ever created to the object, whether or not the array    *)
(* still holds it.  The fields title, originalName, size, mimeType and     *)
(* uploadDate are written once at upload and read by no handler; they are  *)
(* left out of the record.                                                 *)
(*                                                                         *)
(* The HTTP status a handler answers is a function of the state it runs    *)
(* in: one operator per route gives it (UploadCode, DubCode, ...).  Only   *)
(* the DELETE handler answers after it has been suspended, and its answer  *)
(* is kept with the request in `dels`.                                     *)
(***************************************************************************)
EXTENDS Integers, Sequences, FiniteSets, TLC

\* ------------------------------------------------------------------ bounds
MaxUploads == 2
MaxDubs == 2
MaxDeletes == 2
\* The same for the specification of uploads and deletes alone.
CatalogUploads == 3
CatalogDeletes == 3

\* ------------------------------------------------------- program constants
ProgressStep == 10
ProgressDone == 100
\* limits.fileSize, 2 * 1024 * 1024 * 1024 bytes, counted here in KiB
FileSizeLimit == 2 * 1024 * 1024

\* An id no upload ever returned (a request for a uuid the server never made).
UnknownId == 0

NoName == <<>>

VARIABLES
    videos,      \* the array `videos`: ids of the records it holds, in order
    heap,        \* id -> record object, for every record ever created
    uuids,       \* number of uuidv4() values handed out so far
    disk,        \* names of the files present in uploads/videos
    intervals,   \* the setInterval timers created so far, in creation order
    dels,        \* DELETE requests that found their record, in arrival order
    pollingIds   \* the client's state `pollingIds`: the ids it polls

vars == <<videos, heap, uuids, disk, intervals, dels, pollingIds>>

\* ------------------------------------------------------------ file names
\* A file name is a sequence of one-character strings.
Lower(c) ==
    CASE c = "A" -> "a" [] c = "I" -> "i" [] c = "K" -> "k" [] c = "M" -> "m"
      [] c = "O" -> "o" [] c = "P" -> "p" [] c = "T" -> "t" [] c = "V" -> "v"
      [] c = "X" -> "x" [] OTHER -> c

toLowerCase(s) == [i \in 1..Len(s) |-> Lower(s[i])]

\* path.extname: from the last "." to the end; empty when there is no "." or
\* when the only "." is the first character of the name.
extname(name) ==
    LET dots == {i \in 1..Len(name) : name[i] = "."}
    IN  IF dots = {} THEN <<>>
        ELSE LET last == CHOOSE i \in dots : \A j \in dots : j <= i
             IN  IF last = 1 THEN <<>> ELSE SubSeq(name, last, Len(name))

allowedTypes ==
    { <<".", "m", "p", "4">>, <<".", "a", "v", "i">>, <<".", "m", "o", "v">>,
      <<".", "m", "k", "v">>, <<".", "w", "e", "b", "m">> }

\* fileFilter that only asks for some extension.
fileFilter_AnyExtension(originalname) == extname(originalname) # <<>>

fileFilter(originalname) == toLowerCase(extname(originalname)) \in allowedTypes

\* The names and sizes the uploads are drawn from.
OriginalNames ==
    { <<"a", ".", "m", "p", "4">>, <<"b", ".", "M", "K", "V">>,
      <<"c", ".", "t", "x", "t">>, <<"d">>, <<".", "m", "p", "4">> }

FileSizes == {488, FileSizeLimit, FileSizeLimit + 1}

\* StoredName that keeps the client's name (no unique prefix).
StoredName_Original(uniqueId, originalname) == originalname

\* storage.filename: `${uniqueId}${extension}`
StoredName(uniqueId, originalname) == <<uniqueId>> \o extname(originalname)

\* HindiName without the prefix.
HindiName_NoPrefix(filename) == filename

\* `hindi-dub-${video.filename}`
HindiName(filename) == <<"hindi-dub-">> \o filename

\* --------------------------------------------------------------- catalog
Created == DOMAIN heap

\* videos.find(v => v.id === id): the first position holding id, 0 for none
findIndex(id) ==
    IF \E i \in 1..Len(videos) : videos[i] = id
    THEN CHOOSE i \in 1..Len(videos) :
            videos[i] = id /\ \A j \in 1..(i - 1) : videos[j] # id
    ELSE 0

InCatalog(id) == findIndex(id) # 0

\* Removal that fills the hole with the last element instead of shifting.
splice_SwapRemove(arr, index) ==
    IF index \in 1..Len(arr)
    THEN IF index = Len(arr)
         THEN SubSeq(arr, 1, Len(arr) - 1)
         ELSE [SubSeq(arr, 1, Len(arr) - 1) EXCEPT ![index] = arr[Len(arr)]]
    ELSE arr

\* videos.splice(index, 1) with a 1-based index: removes the element at that
\* position when there is one, and nothing when the array is shorter.
splice(arr, index) ==
    IF index \in 1..Len(arr)
    THEN SubSeq(arr, 1, index - 1) \o SubSeq(arr, index + 1, Len(arr))
    ELSE arr

\* Ids a request can name: ids the server returned, and one it never did.
RequestIds == Created \cup {UnknownId}

Init ==
    /\ videos = <<>>
    /\ heap = <<>>
    /\ uuids = 0
    /\ disk = {}
    /\ intervals = <<>>
    /\ dels = <<>>
    /\ pollingIds = {}

\* ---------------------------------------------------------------- upload
\* uuidv4(): the n-th call returns n (a value no earlier call returned).
uuidv4(n) == n

\* The status POST /api/upload answers.  file = FALSE: the request carries no
\* file in the field `video`.  A file the filter refuses or that exceeds the
\* limit makes multer pass an error to express, which answers 500.
UploadCode(file, name, size) ==
    IF ~file THEN 400
    ELSE IF ~fileFilter(name) \/ size > FileSizeLimit THEN 500
    ELSE 200

\* POST /api/upload with a file that passes the filter and the size limit:
\* multer stores it under a fresh name, the handler pushes the record.  At
\* most `max` records are ever created.
UploadOkUpTo(name, size, max) ==
    /\ Cardinality(Created) < max
    /\ UploadCode(TRUE, name, size) = 200
    /\ LET filename == StoredName(uuidv4(uuids + 1), name)
           id == uuidv4(uuids + 2)
           video == [ id |-> id,
                      filename |-> filename,
                      status |-> "uploaded",
                      hindiDubbed |-> FALSE,
                      hindiFilename |-> NoName,
                      progress |-> 0 ]
       IN  /\ uuids' = uuids + 2
           /\ disk' = disk \cup {filename}
           /\ heap' = [i \in Created \cup {id} |->
                          IF i = id THEN video ELSE heap[i]]
           /\ videos' = Append(videos, id)
    /\ UNCHANGED <<intervals, dels, pollingIds>>

UploadOk(name, size) == UploadOkUpTo(name, size, MaxUploads)

\* The filter refuses the file, or the file exceeds the limit: multer passes
\* an error to express, the handler does not run.
UploadRejected(name, size) ==
    /\ UploadCode(TRUE, name, size) = 500
    /\ UNCHANGED <<videos, heap, uuids, disk, intervals, dels, pollingIds>>

\* The request carries no file in the field `video`.
UploadNoFile ==
    /\ UploadCode(FALSE, NoName, 0) = 400
    /\ UNCHANGED <<videos, heap, uuids, disk, intervals, dels, pollingIds>>

Upload ==
    \/ \E name \in OriginalNames, size \in FileSizes : UploadOk(name, size)
    \/ \E name \in OriginalNames, size \in FileSizes : UploadRejected(name, size)
    \/ UploadNoFile

\* ------------------------------------------------------------------ reads
\* GET /api/videos: res.json(videos)
ListBody == [i \in 1..Len(videos) |-> heap[videos[i]]]

GetVideos ==
    /\ Len(ListBody) = Len(videos)
    /\ UNCHANGED <<videos, heap, uuids, disk, intervals, dels, pollingIds>>

\* GET /api/video/:id
GetVideoCode(id) == IF InCatalog(id) THEN 200 ELSE 404

GetVideo(id) ==
    /\ GetVideoCode(id) \in {200, 404}
    /\ UNCHANGED <<videos, heap, uuids, disk, intervals, dels, pollingIds>>

\* GET /api/progress/:id
ProgressCode(id) == IF InCatalog(id) THEN 200 ELSE 404

\* The body of a 200 answer: { status, progress, hindiDubbed }
ProgressBody(id) ==
    [ status |-> heap[id].status,
      progress |-> heap[id].progress,
      hindiDubbed |-> heap[id].hindiDubbed ]

GetProgress(id) ==
    /\ ProgressCode(id) \in {200, 404}
    /\ UNCHANGED <<videos, heap, uuids, disk, intervals, dels, pollingIds>>

\* ---------------------------------------------------------------- dubbing
\* The interval of simulateDubbing: the record its closure holds, the local
\* counter `progress`, and whether clearInterval has been called on it.
NewInterval(id) == [video |-> id, progress |-> 0, active |-> TRUE]

\* What the handler writes to the record before it starts the simulation.
DubReset(video) == [video EXCEPT !.status = "processing", !.progress = 0]

\* The status POST /api/dub/:id answers.
DubCode(id) == IF ~InCatalog(id) THEN 404 ELSE 200

\* POST /api/dub/:id, the handler on the server.  What the caller does with
\* the answer is the caller's part of the step (DubRequest, requestDubbing).
Dub(id) ==
    /\ IF DubCode(id) = 404
       THEN UNCHANGED <<heap, intervals>>
       ELSE /\ Len(intervals) < MaxDubs
            /\ heap' = [heap EXCEPT ![id] = DubReset(heap[id])]
            /\ intervals' = Append(intervals, NewInterval(id))
    /\ UNCHANGED <<videos, uuids, disk, dels>>

\* TickRecord with hindiDubbed set one tick early (the flag written outside
\* the completion branch, at the last value below ProgressDone).
TickRecord_FlagEarly(video, progress) ==
    IF progress >= ProgressDone
    THEN [video EXCEPT !.progress = progress,
                       !.status = "completed",
                       !.hindiDubbed = TRUE,
                       !.hindiFilename = HindiName(video.filename)]
    ELSE [video EXCEPT !.progress = progress,
                       !.hindiDubbed = (progress >= ProgressDone - ProgressStep)]

\* TickRecord without the write of hindiFilename in the completion branch.
TickRecord_NoFilename(video, progress) ==
    IF progress >= ProgressDone
    THEN [video EXCEPT !.progress = progress,
                       !.status = "completed",
                       !.hindiDubbed = TRUE]
    ELSE [video EXCEPT !.progress = progress]

\* What one run of the callback leaves in the record, given the new value of
\* the local counter.
TickRecord(video, progress) ==
    IF progress >= ProgressDone
    THEN [video EXCEPT !.progress = progress,
                       !.status = "completed",
                       !.hindiDubbed = TRUE,
                       !.hindiFilename = HindiName(video.filename)]
    ELSE [video EXCEPT !.progress = progress]

\* A callback that looks its record up in the array first and returns, without
\* clearing the interval, when the record is gone.
Tick_SkipDeleted(t) ==
    /\ t \in 1..Len(intervals)
    /\ intervals[t].active
    /\ InCatalog(intervals[t].video)
    /\ LET progress == intervals[t].progress + ProgressStep
           id == intervals[t].video
       IN  /\ heap' = [heap EXCEPT ![id] = TickRecord(heap[id], progress)]
           /\ intervals' = [intervals EXCEPT
                               ![t].progress = progress,
                               ![t].active = ~(progress >= ProgressDone)]
    /\ UNCHANGED <<videos, uuids, disk, dels, pollingIds>>

\* One run of the callback of interval t.  It writes through the reference
\* its closure holds, whether or not `videos` still holds the record.
Tick(t) ==
    /\ t \in 1..Len(intervals)
    /\ intervals[t].active
    /\ LET progress == intervals[t].progress + ProgressStep
           id == intervals[t].video
       IN  /\ heap' = [heap EXCEPT ![id] = TickRecord(heap[id], progress)]
           /\ intervals' = [intervals EXCEPT
                               ![t].progress = progress,
                               ![t].active = ~(progress >= ProgressDone)]
    /\ UNCHANGED <<videos, uuids, disk, dels, pollingIds>>

\* The intervals not yet cleared whose callback writes to record id.
ActiveTimers(id) ==
    {t \in 1..Len(intervals) : intervals[t].active /\ intervals[t].video = id}

\* ----------------------------------------------------------------- delete
\* A DELETE request past findIndex: the id it names, the index it found, the
\* path it computed, where it is suspended, and the status it answered.
\*   pc = "exists"  awaiting fs.pathExists(filePath)
\*   pc = "remove"  awaiting fs.remove(filePath)
\*   pc = "done"    answered
\* The status DELETE /api/video/:id answers at once; 0: it does not, the
\* handler goes on to the file system.
DeleteCode(id) == IF findIndex(id) = 0 THEN 404 ELSE 0

\* DELETE /api/video/:id up to its first await, with at most `max` requests
\* that found their record.
DeleteBeginUpTo(id, max) ==
    /\ IF DeleteCode(id) = 404
       THEN UNCHANGED dels
       ELSE /\ Len(dels) < max
            /\ dels' = Append(dels, [ id |-> id,
                                      index |-> findIndex(id),
                                      filePath |-> heap[id].filename,
                                      pc |-> "exists",
                                      code |-> 0 ])
    /\ UNCHANGED <<videos, heap, uuids, disk, intervals, pollingIds>>

DeleteBegin(id) == DeleteBeginUpTo(id, MaxDeletes)

\* The tail of the handler: videos.splice(index, 1) and the 200 answer.
DeleteFinish(d) ==
    /\ videos' = splice(videos, dels[d].index)
    /\ dels' = [dels EXCEPT ![d].pc = "done", ![d].code = 200]

\* fs.pathExists answers.  true: the handler calls fs.remove and suspends
\* again; false: it runs on to the splice.  The look at the directory and the
\* resumption of the handler are one step: what runs in between can change
\* `videos`, which the handler does not read again, but not the answer.
DeleteExists(d) ==
    /\ d \in 1..Len(dels)
    /\ dels[d].pc = "exists"
    /\ IF dels[d].filePath \in disk
       THEN /\ dels' = [dels EXCEPT ![d].pc = "remove"]
            /\ UNCHANGED videos
       ELSE DeleteFinish(d)
    /\ UNCHANGED <<heap, uuids, disk, intervals, pollingIds>>

\* fs.remove succeeds (also when the file is gone by now): the handler runs
\* on to the splice.
DeleteRemoveOk(d) ==
    /\ d \in 1..Len(dels)
    /\ dels[d].pc = "remove"
    /\ disk' = disk \ {dels[d].filePath}
    /\ DeleteFinish(d)
    /\ UNCHANGED <<heap, uuids, intervals, pollingIds>>

\* fs.remove rejects: the catch block answers 500, the splice is skipped.
DeleteRemoveFails(d) ==
    /\ d \in 1..Len(dels)
    /\ dels[d].pc = "remove"
    /\ dels[d].filePath \in disk
    /\ dels' = [dels EXCEPT ![d].pc = "done", ![d].code = 500]
    /\ UNCHANGED <<videos, heap, uuids, disk, intervals, pollingIds>>

Delete ==
    \/ \E id \in RequestIds : DeleteBegin(id)
    \/ \E d \in 1..Len(dels) : DeleteExists(d)
    \/ \E d \in 1..Len(dels) : DeleteRemoveOk(d)
    \/ \E d \in 1..Len(dels) : DeleteRemoveFails(d)

\* A dub request of a caller that keeps no state.
DubRequest == \E id \in RequestIds : Dub(id) /\ UNCHANGED pollingIds

Ticks == \E t \in 1..Len(intervals) : Tick(t)

Reads ==
    \/ GetVideos
    \/ \E id \in RequestIds : GetVideo(id)
    \/ \E id \in RequestIds : GetProgress(id)

Next ==
    \/ Upload
    \/ Reads
    \/ DubRequest
    \/ Ticks
    \/ Delete

Spec == Init /\ [][Next]_vars

\* The ids uploads can return within the bounds.
AllIds == {uuidv4(2 * k) : k \in 1..MaxUploads}

\* The steps of Next that can change a variable.  The handlers left out
\* (reads, refused uploads) leave every variable as it is, so the behaviours
\* of Init /\ [][Changing]_vars are those of Spec.
Changing ==
    \/ \E name \in OriginalNames, size \in FileSizes : UploadOk(name, size)
    \/ DubRequest
    \/ Ticks
    \/ Delete

\* setInterval keeps calling the callback of an interval that has not been
\* cleared: every active interval ticks again.
FairSpec == Init /\ [][Changing]_vars /\ \A t \in 1..MaxDubs : WF_vars(Tick(t))

\* Uploads and deletes alone, with more of both.  Neither handler reads or
\* writes `intervals` or a field dubbing writes (delete reads the record's
\* filename, which nothing changes), so what they do to `videos`, `disk` and
\* `dels` here is what they do next to dub requests and ticks.
\* ---- the client (React component) ----

ClientUploads == 1

ClientDeletes == 1

\* requestDubbing(videoId): POST /api/dub/:id; on success the id joins
\* pollingIds.  A 404 makes axios throw and the catch leaves pollingIds alone.
requestDubbing(videoId) ==
    /\ Dub(videoId)
    /\ pollingIds' = IF DubCode(videoId) = 200
                     THEN pollingIds \cup {videoId}
                     ELSE pollingIds

\* checkProgress(videoId), run by the polling interval for an id of
\* pollingIds: GET /api/progress/:id; the id leaves pollingIds when the body
\* says 'completed'.  A 404 makes axios throw and the catch only logs.
checkProgress(videoId) ==
    /\ videoId \in pollingIds
    /\ pollingIds' = IF /\ ProgressCode(videoId) = 200
                        /\ ProgressBody(videoId).status = "completed"
                     THEN pollingIds \ {videoId}
                     ELSE pollingIds
    /\ UNCHANGED <<videos, heap, uuids, disk, intervals, dels>>

\* One client and the server: every dub request is the client's.
ClientNext ==
    \/ \E name \in OriginalNames, size \in FileSizes :
          UploadOkUpTo(name, size, ClientUploads)
    \/ \E id \in RequestIds : requestDubbing(id)
    \/ Ticks
    \/ \E id \in RequestIds : DeleteBeginUpTo(id, ClientDeletes)
    \/ \E d \in 1..Len(dels) : DeleteExists(d)
    \/ \E d \in 1..Len(dels) : DeleteRemoveOk(d)
    \/ \E d \in 1..Len(dels) : DeleteRemoveFails(d)
    \/ \E id \in RequestIds : checkProgress(id)

\* The server's intervals fire and the client's polling interval runs
\* checkProgress for every id of pollingIds.
ClientSpec ==
    /\ Init
    /\ [][ClientNext]_vars
    /\ \A t \in 1..MaxDubs : WF_vars(Tick(t))
    /\ \A id \in AllIds : WF_vars(checkProgress(id))

CatalogNext ==
    \/ \E name \in OriginalNames, size \in FileSizes :
          UploadOkUpTo(name, size, CatalogUploads)
    \/ \E id \in RequestIds : DeleteBeginUpTo(id, CatalogDeletes)
    \/ \E d \in 1..Len(dels) : DeleteExists(d)
    \/ \E d \in 1..Len(dels) : DeleteRemoveOk(d)
    \/ \E d \in 1..Len(dels) : DeleteRemoveFails(d)

CatalogSpec == Init /\ [][CatalogNext]_vars

\* ================================================================ claims
\* Ids whose DELETE request has answered 200.
DeleteAnswered200 ==
    {dels[d].id : d \in {e \in 1..Len(dels) : dels[e].pc = "done" /\ dels[e].code = 200}}

\* Ids some DELETE request has named and found.
DeleteTargets == {dels[d].id : d \in 1..Len(dels)}

\* Ids deleted for good: a DELETE answered 200 and the array no longer holds
\* the record.
Deleted == {id \in DeleteAnswered200 : ~InCatalog(id)}

\* C1: a dub request on a record whose status is Processing fails with
\* AlreadyInProgress (400) and changes neither the catalog nor the timers.
C1_DubOnProcessingRejected ==
    [][\A id \in Created :
          (InCatalog(id) /\ heap[id].status = "processing" /\ Dub(id))
             => (DubCode(id) = 400 /\ UNCHANGED <<videos, heap, intervals>>)]_vars

\* C2: in every reachable state each record id has at most one active timer.
C2_AtMostOneTimerPerId ==
    \A id \in Created : Cardinality(ActiveTimers(id)) <= 1

\* C3: once a delete of a record has completed, no timer for its id is
\* active, and no later tick changes the deleted record.
C3_DeleteCancelsTimer ==
    [][ /\ (\A id \in Deleted : ActiveTimers(id) = {})'
        /\ \A t \in 1..Len(intervals) :
              (Tick(t) /\ intervals[t].video \in Deleted)
                 => heap'[intervals[t].video] = heap[intervals[t].video] ]_vars

\* C4: once DELETE for an id has answered 200, the id is absent from the
\* catalog: progress and get answer 404 and the listing does not hold it.
C4_DeletedStaysAbsent ==
    \A id \in DeleteAnswered200 :
        /\ ProgressCode(id) = 404
        /\ GetVideoCode(id) = 404
        /\ \A i \in 1..Len(ListBody) : ListBody[i].id # id

\* C5: every record whose id no delete request has named is still in the
\* catalog.
C5_DeleteRemovesOnlyItsTarget ==
    \A id \in Created : id \notin DeleteTargets => InCatalog(id)

\* C6: for a record that has not yet reached Completed, the progress a poll
\* returns after a step is not below the progress a poll returned before it.
C6_PolledProgressMonotonic ==
    [][\A id \in Created :
          ( /\ ProgressCode(id) = 200
            /\ ProgressBody(id).status # "completed"
            /\ ~ProgressBody(id).hindiDubbed
            /\ (ProgressCode(id) = 200)' )
             => (ProgressBody(id).progress)' >= ProgressBody(id).progress]_vars

\* C7: once a record is Completed, no step that leaves it in the catalog
\* changes its status, progress, hindiDubbed or hindiFilename.
C7_CompletedIsStable ==
    [][\A id \in Created :
          (InCatalog(id) /\ heap[id].status = "completed" /\ InCatalog(id)')
             => heap'[id] = heap[id]]_vars

\* C8: a record enters Processing only from Uploaded; a dub request on a
\* Completed record fails with InvalidState (400), starts no timer and leaves
\* the record unchanged.
C8_DubOnlyFromUploaded ==
    [][\A id \in Created :
          /\ (heap[id].status # "processing" /\ heap'[id].status = "processing")
                => heap[id].status = "uploaded"
          /\ (InCatalog(id) /\ heap[id].status = "completed" /\ Dub(id))
                => (DubCode(id) = 400 /\ UNCHANGED <<videos, heap, intervals>>)]_vars

\* C9: for every record in the catalog, hindiDubbed implies that status is
\* Completed and hindiFilename is set.
C9_DubbedImpliesCompleted ==
    \A i \in 1..Len(videos) :
        heap[videos[i]].hindiDubbed
           => (heap[videos[i]].status = "completed"
               /\ heap[videos[i]].hindiFilename # NoName)

\* C10: for every record in the catalog, Uploaded implies progress 0,
\* Completed implies progress 100, and progress is a multiple of 10 in 0..100.
C10_ProgressMatchesStatus ==
    \A i \in 1..Len(videos) :
        LET v == heap[videos[i]]
        IN  /\ v.status = "uploaded" => v.progress = 0
            /\ v.status = "completed" => v.progress = 100
            /\ v.progress \in {10 * k : k \in 0..10}

\* The intervals ever created for record id, cleared or not.
TimersOf(id) == {t \in 1..Len(intervals) : intervals[t].video = id}

\* Record id is in the catalog, has been dubbed exactly once, and no delete
\* request has named it.
SingleRun(id) ==
    /\ InCatalog(id)
    /\ Cardinality(TimersOf(id)) = 1
    /\ id \notin DeleteTargets

\* C11: after a single dub request on an Uploaded record, with no further dub
\* or delete request for it, every step leaves the polled progress a multiple
\* of 10 in 0..100 that it either keeps or raises by exactly 10; status is
\* Processing below 100 and Completed at 100; hindiDubbed is false below 100
\* and true at 100.
C11_SingleRunProgress ==
    [][\A id \in Created :
          SingleRun(id)' =>
             /\ (ProgressBody(id).progress)' \in {10 * k : k \in 0..10}
             /\ (ProgressBody(id).progress)' # ProgressBody(id).progress
                   => (ProgressBody(id).progress)' = ProgressBody(id).progress + 10
             /\ (ProgressBody(id).status)' =
                   IF (ProgressBody(id).progress)' < 100 THEN "processing"
                                                         ELSE "completed"
             /\ (ProgressBody(id).hindiDubbed)' = ((ProgressBody(id).progress)' = 100)
      ]_vars

\* A record dubbed once and never deleted has run to 100 / Completed.
C11_Witness ==
    \E id \in Created :
        /\ SingleRun(id)
        /\ ProgressBody(id).progress = 100
        /\ ProgressBody(id).status = "completed"
        /\ ProgressBody(id).hindiDubbed

\* Record id is Completed with everything the completion writes, and none of
\* its timers is active.
Finished(id) ==
    /\ heap[id].status = "completed"
    /\ heap[id].progress = 100
    /\ heap[id].hindiDubbed
    /\ heap[id].hindiFilename # NoName
    /\ ActiveTimers(id) = {}

StoredNames == {heap[i].filename : i \in Created}

\* C13: an upload that answers 200 (the only step that draws uuids or adds
\* to the catalog) adds exactly one record, at the end of
\* the catalog, with status Uploaded, progress 0, hindiDubbed false and
\* hindiFilename null, whose id and stored name no record created before has;
\* in every state the ids and the stored names of the catalog are pairwise
\* different.
C13_UploadCreatesUniqueRecord ==
    [][ /\ (uuids' # uuids \/ Created' # Created \/ Len(videos') > Len(videos)) =>
                 /\ Len(videos') = Len(videos) + 1
                 /\ SubSeq(videos', 1, Len(videos)) = videos
                 /\ Cardinality(Created') = Cardinality(Created) + 1
                 /\ \A i \in Created : heap'[i] = heap[i]
                 /\ LET id == videos'[Len(videos')]
                    IN  /\ id \notin Created
                        /\ heap'[id].id = id
                        /\ heap'[id].filename \notin StoredNames
                        /\ heap'[id].status = "uploaded"
                        /\ heap'[id].progress = 0
                        /\ heap'[id].hindiDubbed = FALSE
                        /\ heap'[id].hindiFilename = NoName
        /\ (\A i, j \in 1..Len(videos) :
               i # j => /\ heap[videos[i]].id # heap[videos[j]].id
                        /\ heap[videos[i]].filename # heap[videos[j]].filename)'
      ]_vars

\* Two uploads of the same original name are both in the catalog.
C13_Witness ==
    /\ Len(videos) = 2
    /\ Tail(heap[videos[1]].filename) = Tail(heap[videos[2]].filename)
    /\ heap[videos[2]].status = "uploaded"

\* The extension of a name as the claim reads it: what follows the last "."
\* of the name, in lower case ("" when the name has no ".").
ClaimedExtension(name) ==
    LET dots == {i \in 1..Len(name) : name[i] = "."}
    IN  IF dots = {} THEN <<>>
        ELSE LET last == CHOOSE i \in dots : \A j \in dots : j <= i
             IN  toLowerCase(SubSeq(name, last + 1, Len(name)))

Disallowed(name) ==
    ClaimedExtension(name) \notin
        { <<"m", "p", "4">>, <<"a", "v", "i">>, <<"m", "o", "v">>,
          <<"m", "k", "v">>, <<"w", "e", "b", "m">> }

\* C14: an upload whose extension, in lower case, is none of mp4, avi, mov,
\* mkv, webm does not answer 200, and no step that creates a record is a step
\* of such an upload.  (The handler of an upload changes the catalog only by
\* creating a record, so the steps that create none need no look.)
C14_DisallowedUploadRejected ==
    [][Created' # Created =>
          \A name \in OriginalNames, size \in FileSizes :
             Disallowed(name) =>
                /\ UploadCode(TRUE, name, size) # 200
                /\ ~UploadOk(name, size)]_vars

\* A state with a record in the catalog in which an upload of a name with a
\* disallowed extension is refused.  The refusal changes no variable, so the
\* state it is refused in is also the state after it.
C14_Witness ==
    /\ Len(videos) = 1
    /\ \E name \in OriginalNames :
          /\ Disallowed(name)
          /\ ENABLED UploadRejected(name, 488)
          /\ ~ENABLED UploadOk(name, 488)

\* C15: dub, get, progress and delete on an id the catalog does not hold
\* answer 404; in particular, once a DELETE for an id has answered 200, a
\* further DELETE for that id answers 404.
C15_AbsentIdNotFound ==
    /\ \A id \in RequestIds :
          ~InCatalog(id) =>
             /\ DubCode(id) = 404
             /\ GetVideoCode(id) = 404
             /\ ProgressCode(id) = 404
             /\ DeleteCode(id) = 404
    /\ \A id \in DeleteAnswered200 : DeleteCode(id) = 404

\* C16: a step that makes a record Completed is a run of the callback of one
\* of the record's intervals; it leaves progress at 100, hindiDubbed true,
\* hindiFilename equal to "hindi-dub-" followed by the stored name, and that
\* interval cleared.
C16_OnlyTickCompletes ==
    [][\A id \in Created :
          (heap[id].status # "completed" /\ heap'[id].status = "completed") =>
             /\ heap'[id].progress = 100
             /\ heap'[id].hindiDubbed
             /\ heap'[id].hindiFilename = <<"hindi-dub-">> \o heap[id].filename
             /\ \E t \in 1..Len(intervals) :
                   /\ Tick(t)
                   /\ intervals[t].video = id
                   /\ intervals[t].active
                   /\ ~intervals'[t].active
                   /\ intervals'[t].progress = 100]_vars

\* An interval has cleared itself and its record is Completed.
C16_Witness ==
    \E t \in 1..Len(intervals) :
        /\ ~intervals[t].active
        /\ heap[intervals[t].video].status = "completed"
        /\ heap[intervals[t].video].hindiFilename =
              <<"hindi-dub-">> \o heap[intervals[t].video].filename

\* C17: a delete request that finds the file of its record already gone
\* answers 200 and leaves the record out of the catalog; a delete request
\* whose fs.remove fails on a file that is there answers a failure.
C17_DeleteAndMissingBlob ==
    [][\A d \in 1..Len(dels) :
          /\ (DeleteExists(d) /\ dels[d].filePath \notin disk) =>
                /\ dels'[d].code = 200
                /\ ~InCatalog(dels[d].id)'
          /\ (DeleteRemoveFails(d) /\ dels[d].filePath \in disk) =>
                dels'[d].code \notin {0, 200}]_vars

\* C18: the listing holds the records in the order of their creation: of two
\* records in it, the one created first comes first.  (uuidv4(n) = n makes
\* the id of a record the time of its creation.)
C18_ListInCreationOrder ==
    \A i, j \in 1..Len(ListBody) :
        i < j => ListBody[i].id < ListBody[j].id

\* Two records are listed after the delete of a record created before both.
C18_Witness ==
    /\ Len(ListBody) = 2
    /\ \E id \in DeleteAnswered200 : id < ListBody[1].id
    /\ ListBody[1].id < ListBody[2].id

\* The number of times the callback of interval t has run.
TicksOf(t) == intervals[t].progress \div ProgressStep

\* C19: an interval starts active with no tick, each run of its callback
\* counts one tick, and it is active exactly while it has run fewer than 10
\* times, whatever the catalog and the other intervals are; with fair ticks
\* every interval is eventually cleared, after 10 ticks.
C19_TimerClearsAfterTenTicks ==
    /\ [][\A t \in 1..Len(intervals') :
             IF t \in 1..Len(intervals)
             THEN /\ intervals'[t].video = intervals[t].video
                  /\ TicksOf(t)' \in {TicksOf(t), TicksOf(t) + 1}
                  /\ TicksOf(t)' # TicksOf(t) => intervals[t].active
                  /\ intervals'[t].active <=> TicksOf(t)' < 10
             ELSE intervals'[t].active /\ TicksOf(t)' = 0]_vars
    /\ \A t \in 1..MaxDubs :
          (t \in 1..Len(intervals) /\ intervals[t].active)
             ~> (t \in 1..Len(intervals) /\ ~intervals[t].active
                                         /\ TicksOf(t) = 10)

\* An interval has cleared itself after its record left the catalog, while
\* another interval on the same record is still active.
C19_Witness ==
    \E t, u \in 1..Len(intervals) :
        /\ ~intervals[t].active /\ TicksOf(t) = 10
        /\ ~InCatalog(intervals[t].video)
        /\ intervals[u].video = intervals[t].video
        /\ intervals[u].active

\* C20: every id the client has in pollingIds eventually leaves pollingIds,
\* also when its record is deleted on the server while its job is running.
C20_PollingEventuallyStops ==
    \A id \in AllIds : (id \in pollingIds) ~> (id \notin pollingIds)
====
